---- MODULE Spec2Model ----
(***************************************************************************)
(* The wind measurement list of Common/Source/windmeasurementlist.cpp:     *)
(* a bounded store of wind samples (addMeasurement, getLeastImportantItem) *)
(* and the weighted estimator over it (getWind).                           *)
(*                                                                         *)
(* Number representation.                                                  *)
(*  - A double holding a time (the Time arguments) is a count of half      *)
(*    units: the value 3 stands for 1.5.  Conversions to long and int      *)
(*    truncate toward zero, as the C++ casts do.                           *)
(*  - Altitudes and vector components are doubles that hold whole numbers. *)
(*  - The doubles inside getWind are exact rationals <<num, den>>.         *)
(*  - An unsigned int is held as its two's-complement residue in           *)
(*    -2^31 .. 2^31-1: the unsigned value u is the residue s with          *)
(*    u = s (s >= 0) or u = s + 2^32 (s < 0).                              *)
(***************************************************************************)
EXTENDS Integers, Sequences, FiniteSets, TLC

VARIABLES measurementlist, nummeasurementlist, call, insertedRank
VARIABLES pointers, live, fault, destroyed

\* The weight and balance manager, a wet station object that is filled before
\* the manager copies it, and the last call made on either.
VARIABLES non_expendable_station_list, expendable_station_list,
          max_limit, min_limit, station, balance

windvars ==
  <<measurementlist, nummeasurementlist, call, insertedRank,
    pointers, live, fault, destroyed>>

balancevars == <<non_expendable_station_list, expendable_station_list,
                 max_limit, min_limit, station, balance>>

VARIABLES fDialogOpen, actShow, actListSizeChange, actListChange, Count,
          items, visible, modal, posted, RequestAirspaceWarningDialog,
          handler, notifier, shown, dlgcall
dialogvars ==
  <<fDialogOpen, actShow, actListSizeChange, actListChange, Count,
    items, visible, modal, posted, RequestAirspaceWarningDialog,
    handler, notifier, shown, dlgcall>>
vars == <<windvars, balancevars, dialogvars>>

(***************************************************************************)
(* Bounds of the model.                                                    *)
(***************************************************************************)
\* windmeasurementlist.h:35 sets the capacity to 200; the model runs the same
\* code with a small capacity so that full stores of every content are reached.
MAX_MEASUREMENTS == 3

\* The most samples inserted in the estimator's specification (SpecWind).
MaxWindSamples == 2
MaxStations == 2
MaxWarnings == 2
MaxPosted == 1

(***************************************************************************)
(* Integer helpers.                                                        *)
(***************************************************************************)
Abs(a) == IF a < 0 THEN -a ELSE a

\* C++ integer division: the quotient truncated toward zero (b > 0).
TruncDiv(a, b) == IF a >= 0 THEN a \div b ELSE -((-a) \div b)

RECURSIVE GCD(_, _)
GCD(a, b) == IF b = 0 THEN a ELSE GCD(b, a % b)

(***************************************************************************)
(* double <-> integer conversions of a time (half units).                  *)
(***************************************************************************)
\* (long)Time, (int)(Time): truncation toward zero.
DoubleToLong(T) == TruncDiv(T, 2)

\* (double)m->time
LongToDouble(n) == 2 * n

(***************************************************************************)
(* struct WindMeasurement                                                  *)
(***************************************************************************)
WindMeasurement(vector, quality, time, altitude) ==
  [vector |-> vector, quality |-> quality, time |-> time, altitude |-> altitude]

(***************************************************************************)
(* getLeastImportantItem                                                   *)
(***************************************************************************)
\* score=600*(6-quality); score+= (int)(Time - (double)time);
Score(m, Time) ==
  600 * (6 - m.quality) + TruncDiv(Time - LongToDouble(m.time), 2)

\* The loop body for i, i-1, ..., 0 with the running maxscore and founditem.
\* Faulty variant, for testing the properties: a scan that also replaces the candidate on an equal score.
RECURSIVE ScanNonStrict(_, _, _, _, _)
ScanNonStrict(list, Time, i, maxscore, founditem) ==
  IF i < 0 THEN founditem
  ELSE IF Score(list[i], Time) >= maxscore
       THEN ScanNonStrict(list, Time, i - 1, Score(list[i], Time), i)
       ELSE ScanNonStrict(list, Time, i - 1, maxscore, founditem)

RECURSIVE Scan(_, _, _, _, _)
Scan(list, Time, i, maxscore, founditem) ==
  IF i < 0 THEN founditem
  ELSE IF Score(list[i], Time) > maxscore
       THEN Scan(list, Time, i - 1, Score(list[i], Time), i)
       ELSE Scan(list, Time, i - 1, maxscore, founditem)

\* maxscore=0; founditem=nummeasurementlist-1; for (i=founditem;i>=0;i--)
\* Faulty variant, for testing the properties: a scan whose candidate starts at the first slot.
getLeastImportantItemFromFirst(list, n, Time) == Scan(list, Time, n - 1, 0, 0)

getLeastImportantItem(list, n, Time) == Scan(list, Time, n - 1, 0, n - 1)

(***************************************************************************)
(* addMeasurement                                                          *)
(***************************************************************************)
\* The slot the new sample goes to and whether a sample is deleted first.
\* Faulty variant, for testing the properties: an add that never evicts.
AddIndexNoEvict(list, n, Time) == [index |-> n, evict |-> FALSE]

\* Faulty variant, for testing the properties: an add that starts evicting one sample below the capacity.
AddIndexEvictEarly(list, n, Time) ==
  IF n >= MAX_MEASUREMENTS - 1
  THEN [index |-> getLeastImportantItem(list, n, Time), evict |-> TRUE]
  ELSE [index |-> n, evict |-> FALSE]

AddIndex(list, n, Time) ==
  IF n = MAX_MEASUREMENTS
  THEN [index |-> getLeastImportantItem(list, n, Time), evict |-> TRUE]
  ELSE [index |-> n, evict |-> FALSE]

\* measurementlist[index] = wind, with the live slots 0 .. count-1 as the domain.
\* Faulty variant, for testing the properties: a store that closes the evicted slot and appends.
StoreAtEnd(list, n, evict, index, wind) ==
  IF evict
  THEN [i \in 0 .. n - 1 |->
          IF i = n - 1 THEN wind
          ELSE IF i >= index THEN list[i + 1] ELSE list[i]]
  ELSE [i \in 0 .. n |-> IF i = index THEN wind ELSE list[i]]

\* Faulty variant, for testing the properties: a store that puts an appended sample in front of the others.
StoreAtFront(list, n, evict, index, wind) ==
  IF evict
  THEN [i \in 0 .. n - 1 |-> IF i = index THEN wind ELSE list[i]]
  ELSE [i \in 0 .. n |-> IF i = 0 THEN wind ELSE list[i - 1]]

\* Faulty variant, for testing the properties: an append that reverses the samples already stored.
StoreAtReversing(list, n, evict, index, wind) ==
  IF evict
  THEN [i \in 0 .. n - 1 |-> IF i = index THEN wind ELSE list[i]]
  ELSE [i \in 0 .. n |-> IF i = index THEN wind ELSE list[n - 1 - i]]

StoreAt(list, n, evict, index, wind) ==
  IF evict
  THEN [i \in 0 .. n - 1 |-> IF i = index THEN wind ELSE list[i]]
  ELSE [i \in 0 .. n |-> IF i = index THEN wind ELSE list[i]]

\* wind->time= (long)Time and the other fields copied.
NewMeasurement(Time, vector, alt, quality) ==
  WindMeasurement(vector, quality, DoubleToLong(Time), alt)

\* The whole call: the new array, the new count, and the slot written.
\* Faulty variant, for testing the properties: an add that drops a new sample less important than the store's.
addMeasurementRejecting(list, n, Time, vector, alt, quality) ==
  LET wind == NewMeasurement(Time, vector, alt, quality)
      where == AddIndex(list, n, Time)
  IN  IF where.evict /\ Score(wind, Time) >= Score(list[where.index], Time)
      THEN [list |-> list, count |-> n, index |-> where.index, evict |-> FALSE]
      ELSE [list  |-> StoreAt(list, n, where.evict, where.index, wind),
            count |-> IF where.evict THEN (n - 1) + 1 ELSE n + 1,
            index |-> where.index,
            evict |-> where.evict]

addMeasurement(list, n, Time, vector, alt, quality) ==
  LET where == AddIndex(list, n, Time)
      wind  == NewMeasurement(Time, vector, alt, quality)
  IN  [list  |-> StoreAt(list, n, where.evict, where.index, wind),
       count |-> IF where.evict THEN (n - 1) + 1 ELSE n + 1,
       index |-> where.index,
       evict |-> where.evict]

(***************************************************************************)
(* Exact rationals <<num, den>>, den > 0, in lowest terms: the doubles of  *)
(* getWind.  Factors are cancelled before multiplying.                     *)
(***************************************************************************)
RNorm(n, d) ==
  LET g == GCD(Abs(n), Abs(d))
  IN  IF d < 0 THEN <<(-n) \div g, (-d) \div g>> ELSE <<n \div g, d \div g>>

RInt(n) == <<n, 1>>

RAdd(a, b) ==
  LET g == GCD(a[2], b[2])
  IN  RNorm(a[1] * (b[2] \div g) + b[1] * (a[2] \div g), (a[2] \div g) * b[2])

RSub(a, b) == RAdd(a, <<-b[1], b[2]>>)

RMul(a, b) ==
  LET g1 == GCD(Abs(a[1]), b[2])
      g2 == GCD(Abs(b[1]), a[2])
  IN  RNorm((a[1] \div g1) * (b[1] \div g2), (a[2] \div g2) * (b[2] \div g1))

\* a / b, b # 0
RDiv(a, b) ==
  RMul(a, IF b[1] < 0 THEN <<-b[2], -b[1]>> ELSE <<b[2], b[1]>>)

RLess(a, b) == a[1] * b[2] < b[1] * a[2]

\* fabs
fabs(a) == <<Abs(a[1]), a[2]>>

\* extern int iround(double): the nearest integer, floor(x + 0.5).
iround(x) == (2 * x[1] + x[2]) \div (2 * x[2])

\* The same conversion done by truncation, (int)x.
itrunc(x) == TruncDiv(x[1], x[2])

(***************************************************************************)
(* unsigned int arithmetic on residues (see the head of the module).       *)
(***************************************************************************)
INT_MAX == 2147483647

\* int -> unsigned int and unsigned int -> int keep the 32 bits, which the
\* residue is.
IntToUnsigned(x) == x

UnsignedToInt(u) == u

\* a + b modulo 2^32
UAdd(a, b) ==
  IF a > 0 /\ b > 0 /\ a > INT_MAX - b
  THEN (a - INT_MAX - 1) + (b - INT_MAX - 1)
  ELSE IF a < 0 /\ b < 0 /\ a < (-INT_MAX - 1) - b
       THEN (a + INT_MAX + 1) + (b + INT_MAX + 1)
       ELSE a + b

\* a * b modulo 2^32: the product of the residues is congruent to the product
\* of the unsigned values; it is its own residue while it lies within 32 bits,
\* which TLC's integers enforce (a larger product stops the run).
UMul(a, b) == a * b

\* total_quality>0 on an unsigned int
UPositive(u) == u # 0

(***************************************************************************)
(* A double that holds a large whole number: <<h, l>> is h * 2^32 + l.     *)
(***************************************************************************)
\* (double)u for an unsigned int u
\* Faulty variant, for testing the properties: a conversion that reads the 32 bits as a signed int.
SignedToDouble(u) == <<0, u>>

UnsignedToDouble(u) == IF u < 0 THEN <<1, u>> ELSE <<0, u>>

\* v * (double)u for a whole v
WholeTimes(v, big) == <<v * big[1], v * big[2]>>

WholePlus(a, b) == <<a[1] + b[1], a[2] + b[2]>>

\* A result component: the value (h * 2^32 + n) / d.  With h = 0 it is in
\* lowest terms with d > 0; with h # 0 it is kept as computed.
Quotient(big, d) ==
  IF big[1] = 0
  THEN LET r == RNorm(big[2], d) IN [h |-> 0, n |-> r[1], d |-> r[2]]
  ELSE [h |-> big[1], n |-> big[2], d |-> d]

(***************************************************************************)
(* getWind                                                                 *)
(***************************************************************************)
REL_FACTOR_QUALITY == 100
REL_FACTOR_ALTITUDE == 100
REL_FACTOR_TIME == 200
TIME_RANGE == 36

altRange == 1000
timeRange == TIME_RANGE * 100

\* double k=0.0025
k == RNorm(25, 10000)

\* altdiff= (alt - m->altitude)*1.0/altRange
altdiffOf(alt, m) == RDiv(RInt(alt - m.altitude), RInt(altRange))

\* timediff= fabs((double)(now - m->time)/timeRange)
timediffOf(now, m) == fabs(RDiv(RInt(now - m.time), RInt(timeRange)))

\* (fabs(altdiff)< 1.0) && (timediff < 1.0)
\* Faulty variant, for testing the properties: a window without the altitude test.
InWindowTimeOnly(altdiff, timediff) == RLess(timediff, RInt(1))

InWindow(altdiff, timediff) ==
  RLess(fabs(altdiff), RInt(1)) /\ RLess(timediff, RInt(1))

\* q_quality = m->quality * REL_FACTOR_QUALITY / 5
\* Faulty variant, for testing the properties: a quality weight that divides before it multiplies.
q_qualityDivideFirst(m) ==
  IntToUnsigned(TruncDiv(m.quality, 5) * REL_FACTOR_QUALITY)

\* Faulty variant, for testing the properties: a quality weight that ignores the quality.
q_qualityFlat(m) == IntToUnsigned(REL_FACTOR_QUALITY)

\* Faulty variant, for testing the properties: a quality weight that is not divided by 5.
q_qualityUndivided(m) == IntToUnsigned(m.quality * REL_FACTOR_QUALITY)

q_qualityOf(m) == IntToUnsigned(TruncDiv(m.quality * REL_FACTOR_QUALITY, 5))

\* a_quality = iround(((2.0/(altdiff*altdiff+1.0))-1.0) * REL_FACTOR_ALTITUDE)
\* Faulty variant, for testing the properties: an altitude weight without the -1.0.
a_qualityNoOffset(altdiff) ==
  IntToUnsigned(iround(
    RMul(RDiv(RInt(2), RAdd(RMul(altdiff, altdiff), RInt(1))),
         RInt(REL_FACTOR_ALTITUDE))))

a_qualityOf(altdiff) ==
  IntToUnsigned(iround(
    RMul(RSub(RDiv(RInt(2), RAdd(RMul(altdiff, altdiff), RInt(1))), RInt(1)),
         RInt(REL_FACTOR_ALTITUDE))))

\* t_quality = iround(k*(1.0-timediff)/(timediff*timediff+k) * REL_FACTOR_TIME)
\* Faulty variant, for testing the properties: a time weight cut instead of rounded.
t_qualityTruncated(timediff) ==
  IntToUnsigned(itrunc(
    RMul(RDiv(RMul(k, RSub(RInt(1), timediff)),
              RAdd(RMul(timediff, timediff), k)),
         RInt(REL_FACTOR_TIME))))

\* Faulty variant, for testing the properties: a time weight scaled twice.
t_qualityTwice(timediff) ==
  IntToUnsigned(iround(
    RMul(RDiv(RMul(k, RSub(RInt(1), timediff)),
              RAdd(RMul(timediff, timediff), k)),
         RInt(2 * REL_FACTOR_TIME))))

t_qualityOf(timediff) ==
  IntToUnsigned(iround(
    RMul(RDiv(RMul(k, RSub(RInt(1), timediff)),
              RAdd(RMul(timediff, timediff), k)),
         RInt(REL_FACTOR_TIME))))

\* The two weights over every whole difference inside the window, computed
\* once: alt - m->altitude in 1-altRange .. altRange-1 and now - m->time in
\* 1-timeRange .. timeRange-1.  Outside these the formula is evaluated as is.
a_qualityTable ==
  [da \in (1 - altRange) .. (altRange - 1) |->
     a_qualityOf(RDiv(RInt(da), RInt(altRange)))]

t_qualityTable ==
  [dt \in (1 - timeRange) .. (timeRange - 1) |->
     t_qualityOf(fabs(RDiv(RInt(dt), RInt(timeRange))))]

a_quality(alt, m) ==
  IF alt - m.altitude \in DOMAIN a_qualityTable
  THEN a_qualityTable[alt - m.altitude]
  ELSE a_qualityOf(altdiffOf(alt, m))

t_quality(now, m) ==
  IF now - m.time \in DOMAIN t_qualityTable
  THEN t_qualityTable[now - m.time]
  ELSE t_qualityOf(timediffOf(now, m))

\* quality= q_quality * (a_quality * t_quality)
qualityOf(m, now, alt) ==
  UMul(q_qualityOf(m), UMul(a_quality(alt, m), t_quality(now, m)))

\* The loop body for i, i+1, ..., n-1; acc holds result.x, result.y and
\* total_quality.
\* Faulty variant, for testing the properties: a loop that adds every sample to the sums and only those inside the window to the total.
RECURSIVE WindLoopSumsAll(_, _, _, _, _, _)
WindLoopSumsAll(list, n, i, now, alt, acc) ==
  IF i >= n THEN acc
  ELSE LET m == list[i]
           quality == qualityOf(m, now, alt)
           w == UnsignedToDouble(quality)
       IN  WindLoopSumsAll(list, n, i + 1, now, alt,
             [x |-> WholePlus(acc.x, WholeTimes(m.vector[1], w)),
              y |-> WholePlus(acc.y, WholeTimes(m.vector[2], w)),
              total_quality |->
                IF InWindow(altdiffOf(alt, m), timediffOf(now, m))
                THEN UAdd(acc.total_quality, quality)
                ELSE acc.total_quality])

\* Faulty variant, for testing the properties: a loop that assigns the sums where it should add to them.
RECURSIVE WindLoopOverwrite(_, _, _, _, _, _)
WindLoopOverwrite(list, n, i, now, alt, acc) ==
  IF i >= n THEN acc
  ELSE LET m == list[i]
       IN  IF InWindow(altdiffOf(alt, m), timediffOf(now, m))
           THEN LET quality == qualityOf(m, now, alt)
                    w == UnsignedToDouble(quality)
                IN  WindLoopOverwrite(list, n, i + 1, now, alt,
                      [x |-> WholeTimes(m.vector[1], w),
                       y |-> WholeTimes(m.vector[2], w),
                       total_quality |-> UAdd(acc.total_quality, quality)])
           ELSE WindLoopOverwrite(list, n, i + 1, now, alt, acc)

RECURSIVE WindLoop(_, _, _, _, _, _)
WindLoop(list, n, i, now, alt, acc) ==
  IF i >= n THEN acc
  ELSE LET m == list[i]
       IN  IF InWindow(altdiffOf(alt, m), timediffOf(now, m))
           THEN LET quality == qualityOf(m, now, alt)
                    w == UnsignedToDouble(quality)
                IN  WindLoop(list, n, i + 1, now, alt,
                      [x |-> WholePlus(acc.x, WholeTimes(m.vector[1], w)),
                       y |-> WholePlus(acc.y, WholeTimes(m.vector[2], w)),
                       total_quality |-> UAdd(acc.total_quality, quality)])
           ELSE WindLoop(list, n, i + 1, now, alt, acc)

\* The division by (int)total_quality when total_quality>0, and *found.
\* Faulty variant, for testing the properties: a result that always reports found.
WindResultAlwaysFound(acc) ==
  [found |-> TRUE,
   x |-> IF acc.total_quality = 0 THEN Quotient(acc.x, 1)
         ELSE Quotient(acc.x, UnsignedToInt(acc.total_quality)),
   y |-> IF acc.total_quality = 0 THEN Quotient(acc.y, 1)
         ELSE Quotient(acc.y, UnsignedToInt(acc.total_quality))]

\* Faulty variant, for testing the properties: a result that is not divided by the total.
WindResultUndivided(acc) ==
  [found |-> UPositive(acc.total_quality),
   x |-> Quotient(acc.x, 1), y |-> Quotient(acc.y, 1)]

\* Faulty variant, for testing the properties: a result that divides twice the sums.
WindResultDoubled(acc) ==
  IF UPositive(acc.total_quality)
  THEN [found |-> TRUE,
        x |-> Quotient(WholePlus(acc.x, acc.x),
                       UnsignedToInt(acc.total_quality)),
        y |-> Quotient(WholePlus(acc.y, acc.y),
                       UnsignedToInt(acc.total_quality))]
  ELSE [found |-> FALSE, x |-> Quotient(acc.x, 1), y |-> Quotient(acc.y, 1)]

WindResult(acc) ==
  IF UPositive(acc.total_quality)
  THEN [found |-> TRUE,
        x |-> Quotient(acc.x, UnsignedToInt(acc.total_quality)),
        y |-> Quotient(acc.y, UnsignedToInt(acc.total_quality))]
  ELSE [found |-> FALSE, x |-> Quotient(acc.x, 1), y |-> Quotient(acc.y, 1)]

getWind(list, n, Time, alt) ==
  WindResult(
    WindLoop(list, n, 0, DoubleToLong(Time), alt,
             [x |-> <<0, 0>>, y |-> <<0, 0>>, total_quality |-> 0]))

\* The whole call on the object: what it returns, and the array and the count
\* it leaves, which the body only reads (m= measurementlist[i]).
\* Faulty variant, for testing the properties: a getWind that empties the store once it has an estimate.
getWindClearing(list, n, Time, alt) ==
  LET result == getWind(list, n, Time, alt)
  IN  IF result.found
      THEN [result |-> result, list |-> [i \in {} |-> 0], count |-> 0]
      ELSE [result |-> result, list |-> list, count |-> n]

getWindCall(list, n, Time, alt) ==
  [result |-> getWind(list, n, Time, alt), list |-> list, count |-> n]

(***************************************************************************)
(* WeightAndBalanceManager.cpp: doubles that may be NaN or infinite.       *)
(* A double is <<n, d>> with d >= 0: the fraction n / d in lowest terms    *)
(* when d > 0, and <<1, 0>> is +infinity, <<-1, 0>> is -infinity and       *)
(* <<0, 0>> is NaN.  Zero is +0: the arguments used below never produce -0.*)
(***************************************************************************)
NaN == <<0, 0>>

Dbl(n) == <<n, 1>>

isnan(a) == a = NaN

IsFinite(a) == a[2] > 0

Sign(n) == IF n > 0 THEN 1 ELSE IF n < 0 THEN -1 ELSE 0

DblNeg(a) == <<-a[1], a[2]>>

\* a + b
DblAdd(a, b) ==
  IF isnan(a) \/ isnan(b) THEN NaN
  ELSE IF IsFinite(a) /\ IsFinite(b) THEN RAdd(a, b)
  ELSE IF IsFinite(a) THEN b
  ELSE IF IsFinite(b) THEN a
  ELSE IF a = b THEN a ELSE NaN

\* a - b
DblSub(a, b) == DblAdd(a, DblNeg(b))

\* a * b
DblMul(a, b) ==
  IF isnan(a) \/ isnan(b) THEN NaN
  ELSE IF IsFinite(a) /\ IsFinite(b) THEN RMul(a, b)
  ELSE <<Sign(a[1]) * Sign(b[1]), 0>>

\* a / b
DblDiv(a, b) ==
  IF isnan(a) \/ isnan(b) THEN NaN
  ELSE IF IsFinite(a) /\ IsFinite(b)
       THEN IF b[1] # 0 THEN RDiv(a, b) ELSE <<Sign(a[1]), 0>>
  ELSE IF IsFinite(b) THEN <<a[1] * (IF b[1] < 0 THEN -1 ELSE 1), 0>>
  ELSE IF IsFinite(a) THEN Dbl(0)
  ELSE NaN

\* a <= b, false when either is NaN
DblLeq(a, b) ==
  /\ ~isnan(a)
  /\ ~isnan(b)
  /\ IF a[2] = 0 /\ b[2] = 0 THEN a[1] <= b[1]
     ELSE a[1] * b[2] <= b[1] * a[2]

\* a > b, false when either is NaN
DblGreater(a, b) == ~isnan(a) /\ ~isnan(b) /\ ~DblLeq(a, b)

\* a == b, false when either is NaN
DblEq(a, b) == ~isnan(a) /\ a = b

(***************************************************************************)
(* Stations and limits.                                                    *)
(***************************************************************************)
\* DryWeightAndBalanceStation(name, arm, mass, station_type)
DryWeightAndBalanceStation(arm, mass, station_type) ==
  [station_type |-> station_type, arm |-> arm, mass |-> mass]

\* What an uninitialised current_capacity can hold: zero, or something else.
HeldCapacities == {Dbl(0), Dbl(20)}

\* WetWeightAndBalanceStation(name, arm, max_capacity, dump_time, liquid_type):
\* the initialiser list sets the base (with StationType::WET), max_capacity
\* and dump_time.  It sets neither liquid_type (the parameter is not used) nor
\* current_capacity: both members hold whatever the memory held, given here
\* as held_liquid and held_capacity.
WetWeightAndBalanceStation(arm, max_capacity, dump_time, liquid_type, held_liquid, held_capacity) ==
  [station_type |-> "WET", arm |-> arm, max_capacity |-> max_capacity,
   dump_time |-> dump_time, liquid_type |-> held_liquid,
   current_capacity |-> held_capacity]

\* WetWeightAndBalanceStation::GetMass
WetGetMass(st) ==
  LET density == IF st.liquid_type = "FUEL" THEN <<151, 200>> ELSE Dbl(1)
  IN  DblMul(st.current_capacity, density)

\* The virtual GetMass: the mass of a dry station, current_capacity * density
\* of a wet one.
GetMass(st) == IF st.station_type = "WET" THEN WetGetMass(st) ELSE st.mass

GetMoment(st) == DblMul(GetMass(st), st.arm)

IsExpendable(st) == st.dump_time > 0

\* WetWeightAndBalanceStation::Fill: the station afterwards and the value
\* returned.
Fill(st, ballast_to_add) ==
  IF DblGreater(ballast_to_add, st.max_capacity)
  THEN [station |-> [st EXCEPT !.current_capacity = st.max_capacity],
        overflow |-> DblSub(st.max_capacity, ballast_to_add)]
  ELSE [station |-> [st EXCEPT !.current_capacity = ballast_to_add],
        overflow |-> Dbl(0)]

\* A WeightAndBalanceLimit as declared: every member NaN.
NoLimit == [weight |-> NaN, forward_limit |-> NaN, aft_limit |-> NaN]

(***************************************************************************)
(* WeightAndBalanceManager                                                 *)
(***************************************************************************)
\* mass += station->GetMass() over a list, from the front
RECURSIVE SumMass(_, _)
SumMass(list, acc) ==
  IF list = << >> THEN acc
  ELSE SumMass(Tail(list), DblAdd(acc, GetMass(Head(list))))

\* moment += station->GetMoment() over a list, from the front
RECURSIVE SumMoment(_, _)
SumMoment(list, acc) ==
  IF list = << >> THEN acc
  ELSE SumMoment(Tail(list), DblAdd(acc, GetMoment(Head(list))))

GetNonExpendableMass(non_expendable) == SumMass(non_expendable, Dbl(0))

GetTotalMass(non_expendable, expendable) ==
  DblAdd(SumMass(expendable, Dbl(0)), GetNonExpendableMass(non_expendable))

GetTotalCenterOfGravity(non_expendable, expendable) ==
  DblDiv(SumMoment(non_expendable, SumMoment(expendable, Dbl(0))),
         SumMass(non_expendable, SumMass(expendable, Dbl(0))))

GetNonExpendableCenterOfGravity(non_expendable) ==
  DblDiv(SumMoment(non_expendable, Dbl(0)), SumMass(non_expendable, Dbl(0)))

GetSlopeInterceptLimit(weight, x1, y1, x2, y2) ==
  IF DblEq(x1, x2) THEN x1
  ELSE LET slope == DblDiv(DblSub(y2, y1), DblSub(x2, x1))
           intercept == DblSub(y1, DblMul(slope, x1))
       IN  DblDiv(DblSub(weight, intercept), slope)

WithinCGLimits(cg, weight, minl, maxl) ==
  LET forwardLimit == GetSlopeInterceptLimit(weight, minl.forward_limit,
                        minl.weight, maxl.forward_limit, maxl.weight)
      aftLimit == GetSlopeInterceptLimit(weight, minl.aft_limit,
                    minl.weight, maxl.aft_limit, maxl.weight)
  IN  DblLeq(forwardLimit, cg) /\ DblLeq(cg, aftLimit)

WithinWeightLimits(weight, minl, maxl) ==
  DblLeq(weight, maxl.weight) /\ DblLeq(minl.weight, weight)

TotalWithinEnvelope(non_expendable, expendable, minl, maxl) ==
  LET cg == GetTotalCenterOfGravity(non_expendable, expendable)
      mass == GetTotalMass(non_expendable, expendable)
  IN  WithinWeightLimits(mass, minl, maxl)
        /\ WithinCGLimits(cg, mass, minl, maxl)

\* Faulty variant, for testing the properties: the check made with the centre of gravity of all stations.
NonExpendableWithTotalCG(non_expendable, expendable, minl, maxl) ==
  LET cg == GetTotalCenterOfGravity(non_expendable, expendable)
      mass == GetNonExpendableMass(non_expendable)
  IN  WithinWeightLimits(mass, minl, maxl)
        /\ WithinCGLimits(cg, mass, minl, maxl)

\* (expendable is the list the body does not read)
NonExpendableWithinEnvelope(non_expendable, expendable, minl, maxl) ==
  LET cg == GetNonExpendableCenterOfGravity(non_expendable)
      mass == GetNonExpendableMass(non_expendable)
  IN  WithinWeightLimits(mass, minl, maxl)
        /\ WithinCGLimits(cg, mass, minl, maxl)

\* AddStation, both overloads: a copy of a dry station goes to the back of the
\* non-expendable list, a copy of a wet station to the back of the expendable
\* list when IsExpendable() and of the non-expendable list otherwise.
\* Faulty variant, for testing the properties: every wet station goes to the expendable list.
AddStationByType(non_expendable, expendable, st) ==
  IF st.station_type = "WET"
  THEN [non_expendable |-> non_expendable,
        expendable |-> Append(expendable, st)]
  ELSE [non_expendable |-> Append(non_expendable, st),
        expendable |-> expendable]

AddStation(non_expendable, expendable, st) ==
  IF st.station_type = "WET" /\ IsExpendable(st)
  THEN [non_expendable |-> non_expendable,
        expendable |-> Append(expendable, st)]
  ELSE [non_expendable |-> Append(non_expendable, st),
        expendable |-> expendable]

(***************************************************************************)
(* The samples on the heap.  pointers[i] is the address held by            *)
(* measurementlist[i], live the set of addresses allocated and not yet     *)
(* deleted, and fault records a delete of, or a read through, an address   *)
(* that is not live.                                                       *)
(***************************************************************************)
\* new WindMeasurement: an address that is not live (the lowest one).
New(heap) ==
  CHOOSE a \in 0 .. Cardinality(heap) :
    a \notin heap /\ \A b \in 0 .. a - 1 : b \in heap

\* delete p
Delete(heap, flt, p) ==
  [live |-> heap \ {p},
   fault |-> IF p \in heap THEN flt ELSE "delete of a dead sample"]

\* The heap side of addMeasurement: delete measurementlist[index] when the
\* store is full, then new WindMeasurement and measurementlist[index] = wind.
\* Faulty variant, for testing the properties: an eviction that forgets the delete.
AddPointerLeaking(ptrs, n, heap, flt, index, evict) ==
  LET a == New(heap)
  IN  [pointers |-> [i \in DOMAIN ptrs \cup {index} |->
                       IF i = index THEN a ELSE ptrs[i]],
       live |-> heap \cup {a},
       fault |-> flt]

AddPointer(ptrs, n, heap, flt, index, evict) ==
  LET d == IF evict THEN Delete(heap, flt, ptrs[index])
           ELSE [live |-> heap, fault |-> flt]
      a == New(d.live)
  IN  [pointers |-> [i \in DOMAIN ptrs \cup {index} |->
                       IF i = index THEN a ELSE ptrs[i]],
       live |-> d.live \cup {a},
       fault |-> d.fault]

\* The reads of getWind: measurementlist[i]->... for every i below the count.
ReadAll(ptrs, n, heap, flt) ==
  IF \E i \in 0 .. n - 1 : ptrs[i] \notin heap
  THEN "read of a dead sample" ELSE flt

\* ~WindMeasurementList: delete measurementlist[i] for i = 0 .. count-1.
\* Faulty variant, for testing the properties: a teardown that stops one slot short.
DestroyAllButLast(ptrs, n, heap, flt, i) ==
  [live |-> heap \ {ptrs[j] : j \in 0 .. n - 2}, fault |-> flt]

RECURSIVE DestroyFrom(_, _, _, _, _)
DestroyFrom(ptrs, n, heap, flt, i) ==
  IF i >= n THEN [live |-> heap, fault |-> flt]
  ELSE LET d == Delete(heap, flt, ptrs[i])
       IN  DestroyFrom(ptrs, n, d.live, d.fault, i + 1)

(***************************************************************************)
(* The calls made on the list.  call records the last call: its arguments  *)
(* and what it returned or did.                                            *)
(***************************************************************************)
Zero == [h |-> 0, n |-> 0, d |-> 1]

NoCall ==
  [op |-> "constructed", Time |-> 0, vector |-> <<0, 0>>, alt |-> 0,
   quality |-> 0, index |-> 0, evict |-> FALSE,
   found |-> FALSE, x |-> Zero, y |-> Zero]

\* The last call of dlgAirspaceWarningShowDlg, when it was the last step.
NoDlgCall == [op |-> "none", Force |-> FALSE, ret |-> "none"]

\* The last call made on a station or on the manager: the liquid type asked
\* of the constructor for the station in hand, the amount given to Fill and
\* the value it returned, and the answer of an envelope check.
NoBalance ==
  [op |-> "constructed", liquid_type |-> "WATER", amount |-> Dbl(0),
   overflow |-> Dbl(0), within |-> FALSE]

\* WindMeasurementList::WindMeasurementList(): nummeasurementlist = 0; no slot
\* of the array is live.
\* History of the slots: insertedRank[i] = r says that the sample of slot i is
\* the r-th oldest of the stored samples (1 is the oldest, the count the most
\* recently inserted).  A call writes its sample to slot index as the newest;
\* the samples inserted after an evicted one move up one rank.
RankAfter(rank, count, index, evict) ==
  [i \in 0 .. count - 1 |->
     IF i = index THEN count
     ELSE IF evict /\ rank[i] > rank[index] THEN rank[i] - 1
          ELSE rank[i]]

Init ==
  /\ measurementlist = [i \in {} |-> 0]
  /\ nummeasurementlist = 0
  /\ call = NoCall
  /\ insertedRank = [i \in {} |-> 0]
  /\ pointers = [i \in {} |-> 0]
  /\ live = {}
  /\ fault = "none"
  /\ destroyed = FALSE
  /\ non_expendable_station_list = << >>
  /\ expendable_station_list = << >>
  /\ max_limit = NoLimit
  /\ min_limit = NoLimit
  /\ station = << >>
  /\ balance = NoBalance
  /\ fDialogOpen = FALSE
  /\ actShow = FALSE
  /\ actListSizeChange = FALSE
  /\ actListChange = FALSE
  /\ Count = 0
  /\ items = 0
  /\ visible = FALSE
  /\ modal = "none"
  /\ posted = 0
  /\ RequestAirspaceWarningDialog = FALSE
  /\ handler = "idle"
  /\ notifier = <<"idle", "idle">>
  /\ shown = 0
  /\ dlgcall = NoDlgCall

AddMeasurement(Time, vector, alt, quality) ==
  \E r \in {addMeasurement(measurementlist, nummeasurementlist,
                          Time, vector, alt, quality)} :
      /\ ~destroyed
      /\ \E h \in {AddPointer(pointers, nummeasurementlist, live, fault,
                               r.index, r.evict)} :
           /\ pointers' = h.pointers
           /\ live' = h.live
           /\ fault' = h.fault
      /\ UNCHANGED destroyed
      /\ measurementlist' = r.list
      /\ nummeasurementlist' = r.count
      /\ call' = [NoCall EXCEPT !.op = "addMeasurement", !.Time = Time,
                                !.vector = vector, !.alt = alt,
                                !.quality = quality, !.index = r.index,
                                !.evict = r.evict]
      /\ insertedRank' = RankAfter(insertedRank, r.count, r.index, r.evict)
      /\ UNCHANGED <<balancevars, dialogvars>>

GetWind(Time, alt) ==
  \E r \in {getWindCall(measurementlist, nummeasurementlist, Time, alt)} :
      /\ call' = [NoCall EXCEPT !.op = "getWind", !.Time = Time,
                                !.alt = alt, !.found = r.result.found,
                                !.x = r.result.x, !.y = r.result.y]
      /\ ~destroyed
      /\ fault' = ReadAll(pointers, nummeasurementlist, live, fault)
      /\ measurementlist' = r.list
      /\ nummeasurementlist' = r.count
      /\ UNCHANGED <<insertedRank, pointers, live, destroyed, balancevars, dialogvars>>

\* ~WindMeasurementList(), at the end of the list's life
Teardown ==
  /\ ~destroyed
  /\ \E d \in {DestroyFrom(pointers, nummeasurementlist, live, fault, 0)} :
       /\ live' = d.live
       /\ fault' = d.fault
  /\ destroyed' = TRUE
  /\ call' = [NoCall EXCEPT !.op = "~WindMeasurementList"]
  /\ UNCHANGED <<measurementlist, nummeasurementlist, insertedRank, pointers,
                 balancevars, dialogvars>>

\* WindMeasurementList(), a new list after the old one is gone
Construct ==
  /\ destroyed
  /\ measurementlist' = [i \in {} |-> 0]
  /\ nummeasurementlist' = 0
  /\ call' = NoCall
  /\ insertedRank' = [i \in {} |-> 0]
  /\ pointers' = [i \in {} |-> 0]
  /\ destroyed' = FALSE
  /\ UNCHANGED <<live, fault, balancevars, dialogvars>>

\* A caller constructs a wet station; station holds the caller's object.
ConstructWetStation(arm, max_capacity, dump_time, liquid_type) ==
  \E held_liquid \in {"WATER", "FUEL"}, held_capacity \in HeldCapacities :
    /\ station' = <<WetWeightAndBalanceStation(arm, max_capacity, dump_time,
                      liquid_type, held_liquid, held_capacity)>>
    /\ balance' = [NoBalance EXCEPT !.op = "WetWeightAndBalanceStation",
                                    !.liquid_type = liquid_type]
    /\ UNCHANGED <<non_expendable_station_list, expendable_station_list,
                   max_limit, min_limit, windvars, dialogvars>>

\* station.Fill(ballast_to_add)
FillStation(ballast_to_add) ==
  /\ station # << >>
  /\ \E r \in {Fill(station[1], ballast_to_add)} :
       /\ station' = <<r.station>>
       /\ balance' = [balance EXCEPT !.op = "Fill",
                                     !.amount = ballast_to_add,
                                     !.overflow = r.overflow,
                                     !.within = FALSE]
  /\ UNCHANGED <<non_expendable_station_list, expendable_station_list,
                 max_limit, min_limit, windvars, dialogvars>>

StationCount ==
  Len(non_expendable_station_list) + Len(expendable_station_list)

\* manager.AddStation(station) with the caller's wet station, which the caller
\* then lets go.
AddWetStation ==
  /\ station # << >>
  /\ StationCount < MaxStations
  /\ \E r \in {AddStation(non_expendable_station_list,
                          expendable_station_list, station[1])} :
       /\ non_expendable_station_list' = r.non_expendable
       /\ expendable_station_list' = r.expendable
  /\ station' = << >>
  /\ balance' = [NoBalance EXCEPT !.op = "AddStation"]
  /\ UNCHANGED <<max_limit, min_limit, windvars, dialogvars>>

\* manager.AddStation(DryWeightAndBalanceStation(name, arm, mass, type))
AddDryStation(arm, mass, station_type) ==
  /\ StationCount < MaxStations
  /\ \E r \in {AddStation(non_expendable_station_list,
                          expendable_station_list,
                          DryWeightAndBalanceStation(arm, mass,
                                                     station_type))} :
       /\ non_expendable_station_list' = r.non_expendable
       /\ expendable_station_list' = r.expendable
  /\ balance' = [balance EXCEPT !.op = "AddStation", !.amount = Dbl(0),
                                !.overflow = Dbl(0), !.within = FALSE]
  /\ UNCHANGED <<station, max_limit, min_limit, windvars, dialogvars>>

SetMaxLimit(limit) ==
  /\ max_limit' = limit
  /\ balance' = [balance EXCEPT !.op = "SetMaxLimit", !.amount = Dbl(0),
                                !.overflow = Dbl(0), !.within = FALSE]
  /\ UNCHANGED <<non_expendable_station_list, expendable_station_list,
                 min_limit, station, windvars, dialogvars>>

SetMinLimit(limit) ==
  /\ min_limit' = limit
  /\ balance' = [balance EXCEPT !.op = "SetMinLimit", !.amount = Dbl(0),
                                !.overflow = Dbl(0), !.within = FALSE]
  /\ UNCHANGED <<non_expendable_station_list, expendable_station_list,
                 max_limit, station, windvars, dialogvars>>

CheckNonExpendable ==
  /\ balance' = [balance EXCEPT
                   !.op = "NonExpendableWithinEnvelope",
                   !.amount = Dbl(0), !.overflow = Dbl(0),
                   !.within = NonExpendableWithinEnvelope(
                                non_expendable_station_list,
                                expendable_station_list,
                                min_limit, max_limit)]
  /\ UNCHANGED <<non_expendable_station_list, expendable_station_list,
                 max_limit, min_limit, station, windvars, dialogvars>>

CheckTotal ==
  /\ balance' = [balance EXCEPT
                   !.op = "TotalWithinEnvelope",
                   !.amount = Dbl(0), !.overflow = Dbl(0),
                   !.within = TotalWithinEnvelope(
                                non_expendable_station_list,
                                expendable_station_list,
                                min_limit, max_limit)]
  /\ UNCHANGED <<non_expendable_station_list, expendable_station_list,
                 max_limit, min_limit, station, windvars, dialogvars>>

(***************************************************************************)
(* The airspace warning dialog.  The notifier runs on its own thread, one  *)
(* statement at a time; the message handler, the buttons and               *)
(* dlgAirspaceWarningShowDlg run on the thread of the windows.  items is   *)
(* what AirspaceWarnGetItemCount() returns, posted the number of WM_USER+1 *)
(* messages waiting, modal the state of wf->ShowModal(), and shown the     *)
(* number of warning dialogs being shown.                                  *)
(***************************************************************************)
Actions ==
  {"asaItemAdded", "asaItemRemoved", "asaClearAll", "asaItemChanged",
   "asaWarnLevelIncreased", "asaProcessEnd"}

\* The first statement of AirspaceWarningNotify that does something for Action.
FirstLine(Action) ==
  IF Action \in {"asaItemAdded", "asaItemRemoved", "asaWarnLevelIncreased"}
  THEN "actShow = true"
  ELSE IF Action = "asaClearAll" THEN "actListSizeChange = true"
  ELSE IF Action = "asaItemChanged" THEN "actListChange = true"
  ELSE "PostMessage"

\* The warning list changes, then AirspaceWarningNotify(Action, AirSpace) is
\* entered.
NotifyCall(Action) ==
  /\ notifier = <<"idle", "idle">>
  /\ Action = "asaItemAdded" => items < MaxWarnings
  /\ Action = "asaItemRemoved" => items > 0
  /\ Action = "asaProcessEnd" => posted < MaxPosted
  /\ items' = IF Action = "asaItemAdded" THEN items + 1
              ELSE IF Action = "asaItemRemoved" THEN items - 1
              ELSE IF Action = "asaClearAll" THEN 0
              ELSE items
  /\ notifier' = <<Action, FirstLine(Action)>>
  /\ dlgcall' = NoDlgCall
  /\ UNCHANGED <<fDialogOpen, actShow, actListSizeChange, actListChange,
                 Count, visible, modal, posted, RequestAirspaceWarningDialog,
                 handler, shown, windvars, balancevars>>

\* if (Action == asaItemAdded || asaItemRemoved || asaWarnLevelIncreased)
\*   actShow = true;
NotifyShow ==
  /\ notifier[2] = "actShow = true"
  /\ actShow' = TRUE
  /\ notifier' = IF notifier[1] = "asaWarnLevelIncreased"
                 THEN <<notifier[1], "actListChange = true">>
                 ELSE <<notifier[1], "actListSizeChange = true">>
  /\ dlgcall' = NoDlgCall
  /\ UNCHANGED <<fDialogOpen, actListSizeChange, actListChange, Count, items,
                 visible, modal, posted, RequestAirspaceWarningDialog,
                 handler, shown, windvars, balancevars>>

\* if (Action == asaItemAdded || asaItemRemoved || asaClearAll)
\*   actListSizeChange = true;
NotifyListSizeChange ==
  /\ notifier[2] = "actListSizeChange = true"
  /\ actListSizeChange' = TRUE
  /\ notifier' = <<"idle", "idle">>
  /\ dlgcall' = NoDlgCall
  /\ UNCHANGED <<fDialogOpen, actShow, actListChange, Count, items,
                 visible, modal, posted, RequestAirspaceWarningDialog,
                 handler, shown, windvars, balancevars>>

\* if (Action == asaItemChanged || asaWarnLevelIncreased) actListChange = true;
NotifyListChange ==
  /\ notifier[2] = "actListChange = true"
  /\ actListChange' = TRUE
  /\ notifier' = <<"idle", "idle">>
  /\ dlgcall' = NoDlgCall
  /\ UNCHANGED <<fDialogOpen, actShow, actListSizeChange, Count, items,
                 visible, modal, posted, RequestAirspaceWarningDialog,
                 handler, shown, windvars, balancevars>>

\* if (Action == asaProcessEnd && (actShow || actListSizeChange ||
\* actListChange)): PostMessage when fDialogOpen, else the request flag.
NotifyProcessEnd ==
  /\ notifier[2] = "PostMessage"
  /\ IF actShow \/ actListSizeChange \/ actListChange
     THEN IF fDialogOpen
          THEN posted' = posted + 1 /\ UNCHANGED RequestAirspaceWarningDialog
          ELSE RequestAirspaceWarningDialog' = TRUE /\ UNCHANGED posted
     ELSE UNCHANGED <<posted, RequestAirspaceWarningDialog>>
  /\ notifier' = <<"idle", "idle">>
  /\ dlgcall' = [op |-> "asaProcessEnd", Force |-> FALSE,
                 ret |-> IF posted' # posted THEN "PostMessage" ELSE "none"]
  /\ UNCHANGED <<fDialogOpen, actShow, actListSizeChange, actListChange,
                 Count, items, visible, modal, handler, shown,
                 windvars, balancevars>>

\* OnCloseClicked: wf->SetVisible(false); wf->SetModalResult(mrOK)
OnCloseClicked(state) == IF state = "running" THEN "closing" ELSE state

\* A WM_USER+1 message reaches UserMsgNotify.
Deliver ==
  /\ handler = "idle"
  /\ posted > 0
  /\ posted' = posted - 1
  /\ handler' = "if (actShow)"
  /\ dlgcall' = NoDlgCall
  /\ UNCHANGED <<fDialogOpen, actShow, actListSizeChange, actListChange,
                 Count, items, visible, modal, RequestAirspaceWarningDialog,
                 notifier, shown, windvars, balancevars>>

\* The statements of UserMsgNotify, one at a time.
UserMsgNotify ==
  /\ handler # "idle"
  /\ dlgcall' = NoDlgCall
  /\ \/ /\ handler = "if (actShow)"
        /\ handler' = IF actShow THEN "actShow = false"
                      ELSE "if (!wf->GetVisible())"
        /\ UNCHANGED <<actShow, actListSizeChange, actListChange, Count,
                       visible, modal>>
     \/ /\ handler = "actShow = false"
        /\ actShow' = FALSE
        /\ handler' = "idle"
        /\ UNCHANGED <<actListSizeChange, actListChange, Count, visible,
                       modal>>
     \/ /\ handler = "if (!wf->GetVisible())"
        /\ handler' = IF ~visible THEN "idle" ELSE "if (actListSizeChange)"
        /\ UNCHANGED <<actShow, actListSizeChange, actListChange, Count,
                       visible, modal>>
     \/ /\ handler = "if (actListSizeChange)"
        /\ handler' = IF actListSizeChange THEN "actListSizeChange = false"
                      ELSE "if (actListChange)"
        /\ UNCHANGED <<actShow, actListSizeChange, actListChange, Count,
                       visible, modal>>
     \/ /\ handler = "actListSizeChange = false"
        /\ actListSizeChange' = FALSE
        /\ handler' = "Count = AirspaceWarnGetItemCount()"
        /\ UNCHANGED <<actShow, actListChange, Count, visible, modal>>
     \/ /\ handler = "Count = AirspaceWarnGetItemCount()"
        /\ Count' = items
        /\ visible' = IF items = 0 THEN FALSE ELSE visible
        /\ modal' = IF items = 0 THEN OnCloseClicked(modal) ELSE modal
        /\ handler' = "if (actListChange)"
        /\ UNCHANGED <<actShow, actListSizeChange, actListChange>>
     \/ /\ handler = "if (actListChange)"
        /\ handler' = IF actListChange THEN "actListChange = false"
                      ELSE "idle"
        /\ UNCHANGED <<actShow, actListSizeChange, actListChange, Count,
                       visible, modal>>
     \/ /\ handler = "actListChange = false"
        /\ actListChange' = FALSE
        /\ handler' = "idle"
        /\ UNCHANGED <<actShow, actListSizeChange, Count, visible, modal>>
  /\ UNCHANGED <<fDialogOpen, items, posted, RequestAirspaceWarningDialog,
                 notifier, shown, windvars, balancevars>>

\* The user presses the close button of the dialog being shown.
CloseClicked ==
  /\ handler = "idle"
  /\ modal = "running"
  /\ visible
  /\ visible' = FALSE
  /\ modal' = OnCloseClicked(modal)
  /\ dlgcall' = NoDlgCall
  /\ UNCHANGED <<fDialogOpen, actShow, actListSizeChange, actListChange,
                 Count, items, posted, RequestAirspaceWarningDialog,
                 handler, notifier, shown, windvars, balancevars>>

\* What dlgAirspaceWarningShowDlg(Force) decides on entry, with open the
\* value of fDialogOpen, show of actShow and n of AirspaceWarnGetItemCount().
\* Faulty variant, for testing the properties: a call that does not look at fDialogOpen.
ShowDlgReentrant(open, show, Force, n) ==
  IF ~show /\ ~Force THEN "return false"
  ELSE IF n = 0 THEN "Count = 0, return false"
  ELSE "ShowModal"

ShowDlg(open, show, Force, n) ==
  IF open THEN "return false"
  ELSE IF ~show /\ ~Force THEN "return false"
  ELSE IF n = 0 THEN "Count = 0, return false"
  ELSE "ShowModal"

\* dlgAirspaceWarningShowDlg(Force) up to wf->ShowModal(), which shows the
\* dialog and handles messages until a modal result is set.
dlgAirspaceWarningShowDlg(Force) ==
  /\ handler = "idle"
  /\ \E r \in {ShowDlg(fDialogOpen, actShow, Force, items)} :
       /\ Count' = IF r = "return false" THEN Count ELSE items
       /\ IF r = "ShowModal"
          THEN /\ fDialogOpen' = TRUE
               /\ visible' = TRUE
               /\ modal' = "running"
               /\ shown' = shown + 1
          ELSE UNCHANGED <<fDialogOpen, visible, modal, shown>>
       /\ dlgcall' = [op |-> "dlgAirspaceWarningShowDlg", Force |-> Force,
                      ret |-> IF r = "ShowModal" THEN "none" ELSE "false"]
  /\ UNCHANGED <<actShow, actListSizeChange, actListChange, items, posted,
                 RequestAirspaceWarningDialog, handler, notifier,
                 windvars, balancevars>>

\* wf->ShowModal() returns; fDialogOpen = false; return(true)
ShowModalReturns ==
  /\ handler = "idle"
  /\ modal = "closing"
  /\ modal' = "none"
  /\ fDialogOpen' = FALSE
  /\ shown' = shown - 1
  /\ dlgcall' = [op |-> "ShowModal returned", Force |-> FALSE, ret |-> "true"]
  /\ UNCHANGED <<actShow, actListSizeChange, actListChange, Count, items,
                 visible, posted, RequestAirspaceWarningDialog, handler,
                 notifier, windvars, balancevars>>

(***************************************************************************)
(* Spec: the store under arguments that exercise the eviction.  The times  *)
(* are 0.5 and 1200; the qualities    are the top of the documented scale  *)
(* and a value above it; a payload is a vector with an altitude.           *)
(***************************************************************************)
StoreTimes == {1, 2400}
StoreQualities == {5, 7}
StorePayloads == {[vector |-> <<1, 0>>, alt |-> 0],
                  [vector |-> <<0, 2>>, alt |-> 500]}

AddAny ==
  \E Time \in StoreTimes, p \in StorePayloads, quality \in StoreQualities :
    AddMeasurement(Time, p.vector, p.alt, quality)

GetWindAny ==
  \E Time \in StoreTimes : GetWind(Time, 0)

Next == AddAny \/ GetWindAny

Spec == Init /\ [][Next]_vars

(***************************************************************************)
(* SpecWind: the estimator under arguments that exercise the window and    *)
(* the weights, on stores of up to MaxWindSamples samples.  Samples are    *)
(* taken at times 0.5 and 2221 at altitude 0.  The queries are made at the *)
(* times 0.5, 16.5, 600, 2221 and 3600 (in half units below) and at the    *)
(* altitudes 0, 500, 1000 and 2000.                                        *)
(***************************************************************************)
WindSampleTimes == {1, 4442}
WindAltitudes == {0}
WindQualities == {-1, 0, 1, 5, 7}
WindVectors == {<<1, 0>>, <<0, 2>>}
WindQueries ==
  {<<1, 0>>, <<4442, 0>>, <<33, 0>>, <<1200, 0>>, <<7200, 0>>,
   <<1200, 500>>, <<7200, 500>>, <<1, 1000>>, <<1200, 2000>>}

\* The samples added: every combination with a quality of the documented
\* scale, and the qualities outside it at the first sample time.
WindSamples ==
  {s \in [Time : WindSampleTimes, vector : WindVectors,
          alt : WindAltitudes, quality : WindQualities] :
     \/ s.quality \in 1 .. 5
     \/ s.Time = 1 /\ s.quality = -1
     \/ s.Time = 1 /\ s.quality = 0 /\ s.vector = <<1, 0>>
     \/ s.Time = 1 /\ s.quality = 7 /\ s.vector = <<0, 2>>}

AddWind ==
  /\ nummeasurementlist < MaxWindSamples
  /\ \E s \in WindSamples :
       AddMeasurement(s.Time, s.vector, s.alt, s.quality)

QueryWind ==
  \E q \in WindQueries : GetWind(q[1], q[2])

NextWind == AddWind \/ QueryWind

SpecWind == Init /\ [][NextWind]_vars

(***************************************************************************)
(* SpecWeights: the estimator queried around samples taken at the times 5  *)
(* and 16 at altitude 1000, at reference times next to, between and far    *)
(* from the sample times (whole and fractional, in half units below) and   *)
(* at altitudes from the sample altitude to the edge of the window.        *)
(***************************************************************************)
WeightSampleTimes == {10, 32}
WeightSampleAltitude == 1000
WeightQueryTimes == {10, 20, 21, 22, 32, 43, 1000, 6000, 7208, 7209, 7231}
WeightQueryAltitudes ==
  {1000, 1001, 1050, 1051, 950, 949, 1500, 500, 1999, 1, 2000, 0}

AddWeightSample ==
  /\ nummeasurementlist < MaxWindSamples
  /\ \E Time \in WeightSampleTimes :
       AddMeasurement(Time, <<1, 0>>, WeightSampleAltitude, 5)

QueryWeights ==
  \E Time \in WeightQueryTimes, alt \in WeightQueryAltitudes :
    GetWind(Time, alt)

NextWeights == AddWeightSample \/ QueryWeights

SpecWeights == Init /\ [][NextWeights]_vars

(***************************************************************************)
(* SpecLife: the store from construction to teardown, under the arguments  *)
(* of Spec.                                                                *)
(***************************************************************************)
NextLife == AddAny \/ GetWindAny \/ Teardown \/ Construct

SpecLife == Init /\ [][NextLife]_vars

(***************************************************************************)
(* SpecBalance: the stations and the manager under the values the chart    *)
(* renderer uses: the limits, the empty-glider and pilot stations, and the *)
(* main ballast tank of capacity 20 at arm 1000, dumpable (120) or not     *)
(* (0), asked for water or for fuel.  Fill is given an amount below, at    *)
(* and above the capacity.                                                 *)
(***************************************************************************)
minimum_limit == [weight |-> Dbl(100), forward_limit |-> Dbl(200),
                  aft_limit |-> Dbl(300)]
maximum_limit == [weight |-> Dbl(200), forward_limit |-> Dbl(220),
                  aft_limit |-> Dbl(300)]
DryStations == {[arm |-> Dbl(250), mass |-> Dbl(100), station_type |-> "EMPTY"],
                [arm |-> Dbl(250), mass |-> Dbl(50), station_type |-> "PILOT"]}
BallastArm == Dbl(1000)
BallastCapacity == Dbl(20)
DumpTimes == {0, 120}
LiquidTypes == {"WATER", "FUEL"}
FillAmounts == {Dbl(0), Dbl(20), Dbl(150)}

ConstructAny ==
  \E dump_time \in DumpTimes, liquid_type \in LiquidTypes :
    ConstructWetStation(BallastArm, BallastCapacity, dump_time, liquid_type)

FillAny == \E amount \in FillAmounts : FillStation(amount)

AddDryAny ==
  \E d \in DryStations : AddDryStation(d.arm, d.mass, d.station_type)

NextBalance ==
  \/ ConstructAny
  \/ FillAny
  \/ AddWetStation
  \/ AddDryAny
  \/ SetMaxLimit(maximum_limit)
  \/ SetMinLimit(minimum_limit)
  \/ CheckNonExpendable
  \/ CheckTotal

SpecBalance == Init /\ [][NextBalance]_vars

(***************************************************************************)
(* SpecDialog: the notifier thread against the thread of the windows, with *)
(* every action of the notifier, a forced and an unforced call of          *)
(* dlgAirspaceWarningShowDlg, and the close button.  SpecDialogFair adds   *)
(* that a posted message is delivered and the handler runs to its return.  *)
(***************************************************************************)
Notifier ==
  \/ \E Action \in Actions : NotifyCall(Action)
  \/ NotifyShow
  \/ NotifyListSizeChange
  \/ NotifyListChange
  \/ NotifyProcessEnd

Handler == Deliver \/ UserMsgNotify

ShowDlgAny == \E Force \in BOOLEAN : dlgAirspaceWarningShowDlg(Force)

NextDialog ==
  \/ Notifier
  \/ Handler
  \/ ShowDlgAny
  \/ CloseClicked
  \/ ShowModalReturns

SpecDialog == Init /\ [][NextDialog]_vars

SpecDialogFair == SpecDialog /\ WF_vars(Handler)

(***************************************************************************)
(* Properties of the store (checked under Spec).                           *)
(***************************************************************************)
\* A step of addMeasurement taken on a full store.
AddOnFull ==
  /\ nummeasurementlist = MAX_MEASUREMENTS
  /\ call'.op = "addMeasurement"

\* Twice the score of the specification, 600*(6 - quality) + (T - time), with
\* T the call's reference time as given (times are counted in half units).
SpecScore2(m, T) == 1200 * (6 - m.quality) + (T - 2 * m.time)

\* C1: the sample count stays within 0 .. MAX_MEASUREMENTS, and once it has
\* reached MAX_MEASUREMENTS every later call leaves it at MAX_MEASUREMENTS.
C1_CountBounded ==
  /\ [](nummeasurementlist >= 0 /\ nummeasurementlist <= MAX_MEASUREMENTS)
  /\ [][nummeasurementlist = MAX_MEASUREMENTS
          => nummeasurementlist' = MAX_MEASUREMENTS]_vars

C1_Witness ==
  /\ call.op = "addMeasurement"
  /\ call.evict
  /\ nummeasurementlist = MAX_MEASUREMENTS

\* C2: addMeasurement on a full store replaces exactly one stored sample by
\* the new one, in the slot of the removed sample; every other sample keeps
\* its index and all its fields, and the count is unchanged.
C2_FullAddReplacesOneSlot ==
  [][AddOnFull =>
       /\ call'.evict
       /\ call'.index \in 0 .. MAX_MEASUREMENTS - 1
       /\ nummeasurementlist' = nummeasurementlist
       /\ DOMAIN measurementlist' = DOMAIN measurementlist
       /\ \A i \in DOMAIN measurementlist :
            i # call'.index => measurementlist'[i] = measurementlist[i]
       /\ measurementlist'[call'.index].vector = call'.vector
       /\ measurementlist'[call'.index].quality = call'.quality
       /\ measurementlist'[call'.index].altitude = call'.alt
       /\ measurementlist'[call'.index].time = DoubleToLong(call'.Time)]_vars

\* An eviction from a slot below the last one, with a different sample left in
\* the last slot.
C2_Witness ==
  /\ call.op = "addMeasurement"
  /\ call.evict
  /\ call.index < MAX_MEASUREMENTS - 1
  /\ measurementlist[MAX_MEASUREMENTS - 1] # measurementlist[call.index]

\* C3: the sample evicted by addMeasurement on a full store has the maximum
\* score 600*(6 - quality) + (T - time) among the stored samples.
C3_EvictsMaximumScore ==
  [][AddOnFull =>
       \A i \in DOMAIN measurementlist :
         SpecScore2(measurementlist[i], call'.Time)
           <= SpecScore2(measurementlist[call'.index], call'.Time)]_vars

\* C4: among the samples that tie at the maximum score, the one with the
\* highest index is evicted.
C4_HighestIndexAmongTies ==
  [][AddOnFull =>
       LET T == call'.Time
           top == {i \in DOMAIN measurementlist :
                     \A j \in DOMAIN measurementlist :
                       SpecScore2(measurementlist[j], T)
                         <= SpecScore2(measurementlist[i], T)}
       IN  /\ call'.index \in top
           /\ \A i \in top : i <= call'.index]_vars

\* Some stored sample carries the given fields.
Stored(vector, alt, quality, time) ==
  \E i \in DOMAIN measurementlist :
    /\ i < nummeasurementlist
    /\ measurementlist[i].vector = vector
    /\ measurementlist[i].altitude = alt
    /\ measurementlist[i].quality = quality
    /\ measurementlist[i].time = time

\* C5 as stated: after addMeasurement the store holds a sample with the
\* supplied vector, altitude, quality and time.  The stored time is a long, so
\* it equals the supplied time when converting it back gives the argument.
C5_StoresSuppliedTime ==
  call.op = "addMeasurement" =>
    \E time \in {DoubleToLong(call.Time)} :
      /\ LongToDouble(time) = call.Time
      /\ Stored(call.vector, call.alt, call.quality, time)

\* C5 as amended: after every addMeasurement the store holds a sample with the
\* supplied vector, altitude and quality and the supplied time truncated to a
\* whole number.
C5_AlwaysStored ==
  call.op = "addMeasurement" =>
    Stored(call.vector, call.alt, call.quality, DoubleToLong(call.Time))

\* An insertion into a full store of a sample whose own score is above that of
\* every other sample left in the store.
C5_Witness ==
  /\ call.op = "addMeasurement"
  /\ call.evict
  /\ \A i \in DOMAIN measurementlist :
       i # call.index =>
         Score(measurementlist[i], call.Time)
           < Score(measurementlist[call.index], call.Time)

(***************************************************************************)
(* The estimator as the specification states it, in unbounded integers.    *)
(* T is the reference time as given (half units), a the reference altitude.*)
(***************************************************************************)
\* The integer nearest to p / q (q > 0).
Round(p, q) == (2 * p + q) \div (2 * q)

\* |altDiff| < 1.0 and timeDiff < 1.0: the altitude differs by less than 1000
\* and the time by less than 3600.
SpecInWindow(m, T, a) ==
  Abs(a - m.altitude) < 1000 /\ Abs(T - 2 * m.time) < 2 * 3600

\* qw = round(quality * 100 / 5)
SpecQw(m) == Round(m.quality * 100, 5)

\* aw = round((2 / (altDiff^2 + 1) - 1) * 100) with altDiff = da / 1000, which
\* is 100 * (1000^2 - da^2) / (1000^2 + da^2).
SpecAw(da) == Round(100 * (1000000 - da * da), 1000000 + da * da)

\* tw = round(0.0025 * (1 - timeDiff) / (timeDiff^2 + 0.0025) * 200) with
\* timeDiff = d / 3600, which is 1800 * (3600 - d) / (d^2 + 32400); d2 is 2*d.
SpecTw(d2) == Round(3600 * (7200 - d2), d2 * d2 + 129600)

\* w = qw * (aw * tw)
SpecWeight(m, T, a) ==
  SpecQw(m) * (SpecAw(a - m.altitude) * SpecTw(Abs(T - 2 * m.time)))

\* sumX, sumY and totalWeight over the in-window samples i, i+1, ..., n-1.
RECURSIVE SpecSums(_, _, _, _, _)
SpecSums(list, n, i, T, a) ==
  IF i >= n THEN [x |-> 0, y |-> 0, w |-> 0]
  ELSE LET rest == SpecSums(list, n, i + 1, T, a)
           m == list[i]
       IN  IF SpecInWindow(m, T, a)
           THEN [x |-> rest.x + m.vector[1] * SpecWeight(m, T, a),
                 y |-> rest.y + m.vector[2] * SpecWeight(m, T, a),
                 w |-> rest.w + SpecWeight(m, T, a)]
           ELSE rest

\* The indices of the stored samples inside the window around (T, a).
InWindowAt(T, a) ==
  {i \in DOMAIN measurementlist : SpecInWindow(measurementlist[i], T, a)}

\* The reference time cut to a whole number, as (int)Time does.
WholeTime(T) == LongToDouble(DoubleToLong(T))

\* The store without the samples outside the window, in order, slots renumbered.
RECURSIVE KeepInWindow(_, _, _, _, _)
KeepInWindow(list, n, i, T, a) ==
  IF i >= n THEN << >>
  ELSE IF SpecInWindow(list[i], T, a)
       THEN <<list[i]>> \o KeepInWindow(list, n, i + 1, T, a)
       ELSE KeepInWindow(list, n, i + 1, T, a)

FromZero(seq) == [i \in 0 .. Len(seq) - 1 |-> seq[i + 1]]

Whole(v) == [h |-> 0, n |-> v, d |-> 1]

(***************************************************************************)
(* Properties of the estimator (checked under SpecWind).                   *)
(***************************************************************************)
\* C6: getWind on a store that never received a sample returns found = false
\* and the vector (0, 0), whatever the reference time and altitude.
C6_EmptyStoreNotFound ==
  (call.op = "getWind" /\ nummeasurementlist = 0) =>
    (~call.found /\ call.x = Zero /\ call.y = Zero)

C6_Witness ==
  /\ call.op = "getWind"
  /\ nummeasurementlist = 0
  /\ call.Time = 7200
  /\ call.alt = 500

\* C7: right after the one sample of quality 5 was inserted at (t0, a0) into
\* the empty store, its weight at (t0, a0) is 2,000,000 and getWind(t0, a0)
\* returns found = true and the inserted vector.
C7_SingleSampleExact ==
  [][(/\ call.op = "addMeasurement"
      /\ nummeasurementlist = 1
      /\ call.quality = 5
      /\ call'.op = "getWind"
      /\ call'.Time = call.Time
      /\ call'.alt = call.alt)
     => /\ call'.found
        /\ call'.x = Whole(call.vector[1])
        /\ call'.y = Whole(call.vector[2])
        /\ qualityOf(measurementlist[0], DoubleToLong(call.Time), call.alt)
             = 2000000]_vars

C7_Witness ==
  /\ call.op = "getWind"
  /\ nummeasurementlist = 1
  /\ measurementlist[0].quality = 5
  /\ measurementlist[0].time = DoubleToLong(call.Time)
  /\ measurementlist[0].altitude = call.alt
  /\ call.found
  /\ call.y = Whole(2)

\* C8: getWind returns what it returns on the store from which every sample
\* outside the window (altitude 1000 or more away, or time 3600 or more away)
\* has been removed.
C8_OutOfWindowIgnored ==
  call.op = "getWind" =>
    \E kept \in {KeepInWindow(measurementlist, nummeasurementlist, 0,
                              call.Time, call.alt)} :
      getWind(FromZero(kept), Len(kept), call.Time, call.alt)
        = [found |-> call.found, x |-> call.x, y |-> call.y]

\* A query that found a wind with one sample inside and one outside the window.
C8_Witness ==
  /\ call.op = "getWind"
  /\ call.found
  /\ nummeasurementlist = 2
  /\ Cardinality(InWindowAt(call.Time, call.alt)) = 1

\* What C9 states of the last call when the reference time is T: with a
\* positive total weight, found is true and the vector is
\* (sumX / totalWeight, sumY / totalWeight).
C9_StatementAt(T) ==
  \E s \in {SpecSums(measurementlist, nummeasurementlist, 0, T, call.alt)} :
    s.w > 0 =>
      /\ call.found
      /\ call.x = Quotient(<<0, s.x>>, s.w)
      /\ call.y = Quotient(<<0, s.y>>, s.w)

\* C9 as stated, for every store and reference time.
C9_WeightedMean == call.op = "getWind" => C9_StatementAt(call.Time)

\* Around (T, a) no quality inside the window is negative or so large that
\* quality*100 leaves the int range, and the total weight fits a signed 32-bit
\* int.
NoWrapAt(T, a) ==
  /\ \A i \in InWindowAt(T, a) :
       /\ measurementlist[i].quality >= 0
       /\ measurementlist[i].quality <= INT_MAX \div REL_FACTOR_QUALITY
  /\ SpecSums(measurementlist, nummeasurementlist, 0, T, a).w <= INT_MAX

\* C9 as amended: the statement holds with the time differences taken from the
\* reference time cut to a whole number, when no in-window quality is negative
\* and the total weight fits a signed 32-bit int.
C9_WeightedMeanWholeTimeNoWrap ==
  (call.op = "getWind" /\ NoWrapAt(WholeTime(call.Time), call.alt))
    => C9_StatementAt(WholeTime(call.Time))

\* A wind found at a fractional reference time from two samples of different
\* vectors and different weights.
C9_Witness ==
  /\ call.op = "getWind"
  /\ call.Time = 33
  /\ NoWrapAt(WholeTime(call.Time), call.alt)
  /\ call.found
  /\ nummeasurementlist = 2
  /\ measurementlist[0].vector # measurementlist[1].vector
  /\ SpecWeight(measurementlist[0], WholeTime(call.Time), call.alt) = 1980000
  /\ SpecWeight(measurementlist[1], WholeTime(call.Time), call.alt) = 10000

\* What C10 states of the last call when the reference time is T: found is
\* true exactly when some sample inside the window has a non-zero combined
\* weight.
C10_StatementAt(T) ==
  call.found <=>
    \E i \in InWindowAt(T, call.alt) :
      SpecWeight(measurementlist[i], T, call.alt) # 0

\* C10 as stated, for every store and reference time.
C10_FoundIffWeight == call.op = "getWind" => C10_StatementAt(call.Time)

\* C10 as amended: the statement holds with the time differences taken from
\* the reference time cut to a whole number, when no in-window quality is
\* negative and the total weight fits a signed 32-bit int.
C10_FoundIffWeightWholeTimeNoWrap ==
  (call.op = "getWind" /\ NoWrapAt(WholeTime(call.Time), call.alt))
    => C10_StatementAt(WholeTime(call.Time))

\* Nothing found although a sample of quality 5 lies inside the window: its
\* time weight is 0.
C10_Witness ==
  /\ call.op = "getWind"
  /\ call.Time = 1
  /\ NoWrapAt(WholeTime(call.Time), call.alt)
  /\ ~call.found
  /\ nummeasurementlist = 1
  /\ measurementlist[0].quality = 5
  /\ InWindowAt(WholeTime(call.Time), call.alt) = {0}

QualityPair(i, j) ==
  /\ i \in DOMAIN measurementlist
  /\ j \in DOMAIN measurementlist
  /\ measurementlist[i].time = measurementlist[j].time
  /\ measurementlist[i].altitude = measurementlist[j].altitude
  /\ measurementlist[i].vector # measurementlist[j].vector
  /\ 1 <= measurementlist[i].quality
  /\ measurementlist[i].quality < measurementlist[j].quality
  /\ measurementlist[j].quality <= 5

\* The weight getWind gives the sample of slot i in the last call.
WeightNow(i) ==
  qualityOf(measurementlist[i], DoubleToLong(call.Time), call.alt)

\* The square of the distance from the returned vector to the vector v.
Dist2(v) ==
  LET dx == RSub(<<call.x.n, call.x.d>>, RInt(v[1]))
      dy == RSub(<<call.y.n, call.y.d>>, RInt(v[2]))
  IN  RAdd(RMul(dx, dx), RMul(dy, dy))

\* What C12 states of the pair (i, j) in the last call: the sample of the
\* higher quality has the strictly larger weight, in the proportion of the
\* qualities; when the two are the whole store the estimate is their blend in
\* that proportion and lies strictly closer to the vector of slot j.
C12_PairStatement(i, j) ==
  LET mi == measurementlist[i]
      mj == measurementlist[j]
  IN  /\ call.found
      /\ WeightNow(i) < WeightNow(j)
      /\ WeightNow(i) * mj.quality = WeightNow(j) * mi.quality
      /\ nummeasurementlist = 2 =>
           /\ call.x = Quotient(<<0, mi.quality * mi.vector[1]
                                       + mj.quality * mj.vector[1]>>,
                                mi.quality + mj.quality)
           /\ call.y = Quotient(<<0, mi.quality * mi.vector[2]
                                       + mj.quality * mj.vector[2]>>,
                                mi.quality + mj.quality)
           /\ RLess(Dist2(mj.vector), Dist2(mi.vector))

\* C12 as stated: for two samples of the same time and altitude with qualities
\* q1 < q2 within 1..5, getWind at any reference point gives the sample of
\* quality q2 the strictly larger share.
C12_HigherQualityLargerShare ==
  call.op = "getWind" =>
    \A i, j \in DOMAIN measurementlist :
      QualityPair(i, j) => C12_PairStatement(i, j)

\* The samples of slots i and j are inside the window getWind uses and their
\* altitude and time weights are not 0; the total weight is positive.
PairWeighted(i, j) ==
  /\ InWindow(altdiffOf(call.alt, measurementlist[i]),
              timediffOf(DoubleToLong(call.Time), measurementlist[i]))
  /\ WeightNow(i) # 0
  /\ WeightNow(j) # 0
  /\ NoWrapAt(WholeTime(call.Time), call.alt)

\* C12 as amended: the statement holds at the reference points where the two
\* samples lie inside the window with altitude and time weights that are not
\* 0 (and the other samples neither wrap nor cancel the total).
C12_HigherQualityLargerShareInWindow ==
  call.op = "getWind" =>
    \A i, j \in DOMAIN measurementlist :
      (QualityPair(i, j) /\ PairWeighted(i, j)) => C12_PairStatement(i, j)

\* An estimate blended from a quality-1 and a quality-5 sample with a time
\* weight below 200.
C12_Witness ==
  /\ call.op = "getWind"
  /\ call.found
  /\ nummeasurementlist = 2
  /\ \E i, j \in DOMAIN measurementlist :
       /\ QualityPair(i, j)
       /\ PairWeighted(i, j)
       /\ WeightNow(j) = 140000
       /\ call.y = Quotient(<<0, 10>>, 6)

\* C13: getWind is read-only: a call leaves the count and every stored sample
\* as they were, so the store changes only in a call of addMeasurement.
C13_GetWindReadOnly ==
  [][/\ call'.op = "getWind" =>
          /\ nummeasurementlist' = nummeasurementlist
          /\ measurementlist' = measurementlist
     /\ (nummeasurementlist' # nummeasurementlist
           \/ measurementlist' # measurementlist)
          => call'.op = "addMeasurement"]_vars

\* An estimate was returned from a store of two samples, which are still there.
C13_Witness ==
  /\ call.op = "getWind"
  /\ call.found
  /\ call.alt = 500
  /\ nummeasurementlist = 2
  /\ DOMAIN measurementlist = {0, 1}

\* C15: getWind does not depend on the storage order: it returns the same
\* (vector, found) on every store holding the same samples at other indices.
C15_OrderIndependent ==
  call.op = "getWind" =>
    \A f \in Permutations(DOMAIN measurementlist) :
      getWind([i \in DOMAIN measurementlist |-> measurementlist[f[i]]],
              nummeasurementlist, call.Time, call.alt)
        = [found |-> call.found, x |-> call.x, y |-> call.y]

\* An estimate from two samples of different vectors and different weights,
\* which another layout would visit in the other order.
C15_Witness ==
  /\ call.op = "getWind"
  /\ call.found
  /\ nummeasurementlist = 2
  /\ InWindowAt(WholeTime(call.Time), call.alt) = {0, 1}
  /\ measurementlist[0].vector # measurementlist[1].vector
  /\ WeightNow(0) > WeightNow(1)
  /\ WeightNow(1) > 0

\* The slots of the samples inside the window getWind used in the last call.
UsedNow ==
  {i \in DOMAIN measurementlist :
     InWindow(altdiffOf(call.alt, measurementlist[i]),
              timediffOf(DoubleToLong(call.Time), measurementlist[i]))}

\* The value of the weight the last call gave the sample of slot i, as it
\* enters the sums: a double holding the unsigned int.
WeightValueNow(i) == UnsignedToDouble(WeightNow(i))

\* The weight of the formula for slot i: 20 * quality * (aw * tw).
FormulaWeightNow(i) ==
  SpecWeight(measurementlist[i], WholeTime(call.Time), call.alt)

SourceCapacity == 200
LargestWeight == REL_FACTOR_QUALITY * REL_FACTOR_ALTITUDE * REL_FACTOR_TIME

\* The total_quality getWind accumulated in the last call, as the unsigned int
\* holds it.
TotalNow ==
  WindLoop(measurementlist, nummeasurementlist, 0, DoubleToLong(call.Time),
           call.alt,
           [x |-> <<0, 0>>, y |-> <<0, 0>>, total_quality |-> 0]).total_quality

\* The sum of the weights of the samples used, in unbounded integers.
RECURSIVE SumOfWeights(_)
SumOfWeights(slots) ==
  IF slots = {} THEN 0
  ELSE LET i == CHOOSE j \in slots : TRUE
       IN  FormulaWeightNow(i) + SumOfWeights(slots \ {i})

\* C25: with every stored quality within 1 .. 5 each combined weight is within
\* 0 .. 2,000,000 and the total of a store of at most 200 samples within
\* 0 .. 400,000,000, so the unsigned accumulation does not wrap and the total
\* converted to a signed int keeps its value and sign.
C25_WeightsFit ==
  (/\ call.op = "getWind"
   /\ \A i \in DOMAIN measurementlist : measurementlist[i].quality \in 1 .. 5)
  => /\ LargestWeight = 2000000
     /\ SourceCapacity * LargestWeight = 400000000
     /\ SourceCapacity * LargestWeight <= INT_MAX
     /\ nummeasurementlist <= SourceCapacity
     /\ \A i \in UsedNow :
          /\ WeightNow(i) \in 0 .. LargestWeight
          /\ WeightNow(i) = FormulaWeightNow(i)
     /\ TotalNow = SumOfWeights(UsedNow)
     /\ TotalNow \in 0 .. nummeasurementlist * LargestWeight
     /\ UnsignedToInt(TotalNow) = SumOfWeights(UsedNow)
     /\ call.found <=> SumOfWeights(UsedNow) > 0

\* Two samples of quality 5 queried at their own time and altitude: each
\* weighs 2,000,000, the most a sample can.
C25_Witness ==
  /\ call.op = "getWind"
  /\ nummeasurementlist = 2
  /\ UsedNow = {0, 1}
  /\ WeightNow(0) = 2000000
  /\ WeightNow(1) = 2000000
  /\ TotalNow = 4000000
  /\ call.found

\* The samples that contributed to the last estimate: inside the window, with
\* a weight that is not 0.
Contributing == {i \in UsedNow : WeightNow(i) # 0}

\* The returned component c (a fraction n / d with d > 0) is not below the
\* component of some contributing sample and not above that of another.
Between(c, axis) ==
  /\ c.h = 0
  /\ c.d > 0
  /\ \E i \in Contributing : measurementlist[i].vector[axis] * c.d <= c.n
  /\ \E i \in Contributing : c.n <= measurementlist[i].vector[axis] * c.d

\* C26: when getWind returns found = true and every stored quality is within
\* 1 .. 5, each component of the returned vector lies between the smallest and
\* the largest of that component over the in-window samples of non-zero
\* weight.
C26_EstimateWithinSamples ==
  (/\ call.op = "getWind"
   /\ call.found
   /\ \A i \in DOMAIN measurementlist : measurementlist[i].quality \in 1 .. 5)
  => (Between(call.x, 1) /\ Between(call.y, 2))

\* An estimate strictly between two samples of different vectors and weights.
C26_Witness ==
  /\ call.op = "getWind"
  /\ call.found
  /\ Contributing = {0, 1}
  /\ measurementlist[0].vector = <<1, 0>>
  /\ measurementlist[1].vector = <<0, 2>>
  /\ WeightNow(0) # WeightNow(1)
  /\ 0 < call.x.n
  /\ call.x.n < call.x.d
  /\ 0 < call.y.n
  /\ call.y.n < 2 * call.y.d

(***************************************************************************)
(* More properties of the store (checked under Spec).                      *)
(***************************************************************************)
\* The sample the last call of addMeasurement was given.
Supplied ==
  WindMeasurement(call.vector, call.quality, DoubleToLong(call.Time), call.alt)

\* A sample at a lower index was inserted before every sample at a higher one.
InsertionOrdered ==
  \A i, j \in DOMAIN insertedRank :
    i < j => insertedRank[i] < insertedRank[j]

\* C14 as stated: the store is insertion-ordered after any sequence of
\* addMeasurement calls, including calls that evict.
C14_InsertionOrdered == InsertionOrdered

\* C14 as amended: every call writes its sample, the most recently inserted
\* one, to the slot it chose; a call that does not evict appends it and keeps
\* an insertion-ordered store insertion-ordered, and a call that evicts writes
\* it to the slot of the evicted sample, wherever that slot is.
C14_OrderedUntilEviction ==
  [][call'.op = "addMeasurement" =>
       /\ measurementlist'[call'.index] = Supplied'
       /\ insertedRank'[call'.index] = nummeasurementlist'
       /\ ~call'.evict =>
            /\ call'.index = nummeasurementlist
            /\ InsertionOrdered => InsertionOrdered'
       /\ call'.evict =>
            \A i \in DOMAIN measurementlist :
              i # call'.index => measurementlist'[i] = measurementlist[i]]_vars

\* After an eviction the most recently inserted sample sits below an older one.
C14_Witness ==
  /\ call.op = "addMeasurement"
  /\ call.evict
  /\ call.index = 0
  /\ insertedRank[0] = MAX_MEASUREMENTS
  /\ insertedRank[MAX_MEASUREMENTS - 1] < MAX_MEASUREMENTS
  /\ measurementlist[0] = Supplied
  /\ measurementlist[0] # measurementlist[MAX_MEASUREMENTS - 1]

AddBelowCapacity ==
  /\ nummeasurementlist < MAX_MEASUREMENTS
  /\ call'.op = "addMeasurement"

\* C19: addMeasurement with the count below the capacity places the new sample
\* at index count, the next free slot, increases the count by exactly 1,
\* evicts no sample, and leaves every stored sample at its index with its
\* fields.
C19_AppendsBelowCapacity ==
  [][AddBelowCapacity =>
       /\ ~call'.evict
       /\ call'.index = nummeasurementlist
       /\ nummeasurementlist' = nummeasurementlist + 1
       /\ DOMAIN measurementlist' = 0 .. nummeasurementlist
       /\ measurementlist'[nummeasurementlist] = Supplied'
       /\ \A i \in DOMAIN measurementlist :
            measurementlist'[i] = measurementlist[i]]_vars

\* A sample appended behind a different one.
C19_Witness ==
  /\ call.op = "addMeasurement"
  /\ ~call.evict
  /\ call.index = nummeasurementlist - 1
  /\ call.index >= 1
  /\ measurementlist[0] # measurementlist[call.index]

\* C20: getLeastImportantItem is invoked only from addMeasurement and only when
\* the count equals the capacity, never on an empty store, and the index it
\* returns is within 0 .. count-1; the slot addMeasurement deletes and the slot
\* it writes are always within the array.
C20_EvictionIndexInRange ==
  [][/\ call'.evict =>
          /\ call'.op = "addMeasurement"
          /\ nummeasurementlist = MAX_MEASUREMENTS
          /\ nummeasurementlist > 0
          /\ call'.index \in 0 .. nummeasurementlist - 1
     /\ call'.op = "addMeasurement" =>
          /\ call'.index \in 0 .. MAX_MEASUREMENTS - 1
          /\ call'.index \in DOMAIN measurementlist'
          /\ nummeasurementlist' <= MAX_MEASUREMENTS]_vars

\* An eviction from the first slot of a full store.
C20_Witness ==
  /\ call.op = "addMeasurement"
  /\ call.evict
  /\ call.index = 0
  /\ nummeasurementlist = MAX_MEASUREMENTS

AtAltitude(m, altitude) == [m EXCEPT !.altitude = altitude]
AtTime(m, time) == [m EXCEPT !.time = time]

\* The slots whose altitude is less than 1000 from the reference altitude of
\* the last call.
AltitudeClose ==
  {i \in DOMAIN measurementlist :
     Abs(call.alt - measurementlist[i].altitude) < altRange}

\* C22: for every sample inside the window the altitude weight is a whole
\* number in 0 .. 100, is 100 when the sample's altitude is the reference
\* altitude, and is not above the weight at any smaller absolute altitude
\* difference.
C22_AltitudeWeight ==
  call.op = "getWind" =>
    \A i \in AltitudeClose :
      LET m == measurementlist[i]
          aw == a_quality(call.alt, m)
          d == Abs(call.alt - m.altitude)
      IN  /\ aw \in 0 .. 100
          /\ d = 0 => aw = 100
          /\ \A d1 \in 0 .. d :
               /\ a_quality(call.alt, AtAltitude(m, call.alt - d1)) >= aw
               /\ a_quality(call.alt, AtAltitude(m, call.alt + d1)) >= aw

\* A sample 50 below the reference altitude weighs 100 and one 51 below 99.
C22_Witness ==
  /\ call.op = "getWind"
  /\ call.found
  /\ call.alt = 1051
  /\ 0 \in AltitudeClose
  /\ a_quality(call.alt, measurementlist[0]) = 99
  /\ a_quality(call.alt - 1, measurementlist[0]) = 100

\* The slots whose time is less than 3600 from the reference time T (in half
\* units).
TimeClose(T) ==
  {i \in DOMAIN measurementlist :
     Abs(T - LongToDouble(measurementlist[i].time)) < LongToDouble(timeRange)}

\* What C23 states of the last call when the reference time is T: the time
\* weight of every sample inside the window is a whole number in 0 .. 200, is
\* 200 when the sample's time is T, is not above the weight of a sample at a
\* time that is not farther from T, and is the weight of a sample as far on
\* the other side of T.
C23_StatementAt(T) ==
  \A i \in TimeClose(T) :
    LET m == measurementlist[i]
        now == DoubleToLong(call.Time)
        tw == t_quality(now, m)
        d == Abs(T - LongToDouble(m.time))
    IN  /\ tw \in 0 .. 200
        /\ LongToDouble(m.time) = T => tw = 200
        /\ \A time \in (DoubleToLong(T) - DoubleToLong(d) - 1)
                         .. (DoubleToLong(T) + DoubleToLong(d) + 1) :
             Abs(T - LongToDouble(time)) <= d
               => t_quality(now, AtTime(m, time)) >= tw

\* C23 as stated, for every reference time.
C23_TimeWeight == call.op = "getWind" => C23_StatementAt(call.Time)

\* C23 as amended: the statement holds of the differences from the reference
\* time cut to a whole number, which is the time getWind measures from.
C23_TimeWeightWholeTime ==
  call.op = "getWind" => C23_StatementAt(WholeTime(call.Time))

\* At the reference time 10.5 the sample taken at 5 weighs 200 and the one
\* taken at 16, as far away as the first, 199.
C23_Witness ==
  /\ call.op = "getWind"
  /\ call.Time = 21
  /\ nummeasurementlist = 2
  /\ measurementlist[0].time = 5
  /\ measurementlist[1].time = 16
  /\ t_quality(DoubleToLong(call.Time), measurementlist[0]) = 200
  /\ t_quality(DoubleToLong(call.Time), measurementlist[1]) = 199
  /\ TimeClose(WholeTime(call.Time)) = {0, 1}

(***************************************************************************)
(* The life of the samples (checked under SpecLife).                       *)
(***************************************************************************)
\* Every slot below the count holds a live sample of its own, and every live
\* sample is held by a slot.
SlotsOwnLive ==
  /\ DOMAIN pointers = 0 .. nummeasurementlist - 1
  /\ \A i, j \in DOMAIN pointers : i # j => pointers[i] # pointers[j]
  /\ {pointers[i] : i \in DOMAIN pointers} = live

\* C21: each slot below the count holds a distinct live sample allocated by
\* addMeasurement; a sample is freed exactly once, by eviction or by teardown,
\* so no sample is deleted twice or read after its delete, and after teardown
\* none is left allocated.
C21_OwnershipExact ==
  /\ [](fault = "none")
  /\ [](~destroyed => SlotsOwnLive)
  /\ [](destroyed => live = {})
  /\ [][live' # live =>
          call'.op \in {"addMeasurement", "~WindMeasurementList"}]_vars
  /\ [][live' \ live # {} => call'.op = "addMeasurement"]_vars

\* A full store torn down after an eviction.
C21_Witness ==
  /\ destroyed
  /\ call.op = "~WindMeasurementList"
  /\ nummeasurementlist = MAX_MEASUREMENTS
  /\ ~InsertionOrdered
  /\ live = {}

(***************************************************************************)
(* Properties of the stations and the manager (checked under SpecBalance). *)
(***************************************************************************)
FilledStation == station[1]

\* C17: Fill(amount) returns the overflow: when amount exceeds max_capacity
\* the fill level becomes max_capacity and amount - max_capacity, which is not
\* negative, is returned; otherwise the fill level becomes amount and 0 is
\* returned.
C17_FillReturnsOverflow ==
  balance.op = "Fill" =>
    IF DblGreater(balance.amount, FilledStation.max_capacity)
    THEN /\ FilledStation.current_capacity = FilledStation.max_capacity
         /\ balance.overflow
              = DblSub(balance.amount, FilledStation.max_capacity)
         /\ DblLeq(Dbl(0), balance.overflow)
    ELSE /\ FilledStation.current_capacity = balance.amount
         /\ balance.overflow = Dbl(0)

\* The limit at a weight on the line through (x1, y1) and (x2, y2), in
\* two-point form.
LimitAt(weight, x1, y1, x2, y2) ==
  DblAdd(x1, DblDiv(DblMul(DblSub(weight, y1), DblSub(x2, x1)),
                    DblSub(y2, y1)))

\* The point (cg, mass) lies within the weight limits and within the forward
\* and aft limits interpolated at mass.
InEnvelope(cg, mass) ==
  /\ DblLeq(min_limit.weight, mass)
  /\ DblLeq(mass, max_limit.weight)
  /\ DblLeq(LimitAt(mass, min_limit.forward_limit, min_limit.weight,
                    max_limit.forward_limit, max_limit.weight), cg)
  /\ DblLeq(cg, LimitAt(mass, min_limit.aft_limit, min_limit.weight,
                        max_limit.aft_limit, max_limit.weight))

NonExpendableMassNow == GetNonExpendableMass(non_expendable_station_list)
NonExpendableCGNow ==
  GetNonExpendableCenterOfGravity(non_expendable_station_list)
TotalCGNow ==
  GetTotalCenterOfGravity(non_expendable_station_list,
                          expendable_station_list)

Dumpable(st) == st.station_type = "WET" /\ st.dump_time > 0

AllStations == non_expendable_station_list \o expendable_station_list

\* The mass of the dumpable wet stations, wherever they are listed.
DumpableMass == SumMass(SelectSeq(AllStations, Dumpable), Dbl(0))

\* C27: after any sequence of AddStation calls every station of the expendable
\* list is a wet station with dump_time > 0 and every dry station and wet
\* station with dump_time = 0 is in the non-expendable list; a call puts its
\* station at the back of one list and leaves the other as it was, so no
\* station is in both lists and none is dropped, and GetTotalMass is
\* GetNonExpendableMass plus the mass of the dumpable wet stations.
C27_StationsPartitioned ==
  /\ [](\A i \in DOMAIN expendable_station_list :
          Dumpable(expendable_station_list[i]))
  /\ [](\A i \in DOMAIN non_expendable_station_list :
          ~Dumpable(non_expendable_station_list[i]))
  /\ [](GetTotalMass(non_expendable_station_list, expendable_station_list)
          = DblAdd(GetNonExpendableMass(non_expendable_station_list),
                   DumpableMass))
  /\ [][balance'.op = "AddStation" =>
          IF station' # station
          THEN IF station[1].dump_time > 0
               THEN /\ expendable_station_list'
                         = Append(expendable_station_list, station[1])
                    /\ UNCHANGED non_expendable_station_list
               ELSE /\ non_expendable_station_list'
                         = Append(non_expendable_station_list, station[1])
                    /\ UNCHANGED expendable_station_list
          ELSE /\ UNCHANGED expendable_station_list
               /\ Len(non_expendable_station_list')
                    = Len(non_expendable_station_list) + 1
               /\ SubSeq(non_expendable_station_list', 1,
                         Len(non_expendable_station_list))
                    = non_expendable_station_list
               /\ non_expendable_station_list'[
                    Len(non_expendable_station_list')] \in
                    {DryWeightAndBalanceStation(d.arm, d.mass, d.station_type) :
                       d \in DryStations}]_vars

\* A filled trim tank that cannot be dumped is listed as non-expendable and a
\* filled dumpable tank as expendable.
C27_Witness ==
  /\ balance.op = "AddStation"
  /\ Len(non_expendable_station_list) = 1
  /\ Len(expendable_station_list) = 1
  /\ non_expendable_station_list[1].station_type = "WET"
  /\ non_expendable_station_list[1].current_capacity = Dbl(20)
  /\ expendable_station_list[1].current_capacity = Dbl(20)
  /\ DumpableMass # Dbl(0)

\* The density of the liquid asked of the constructor.
DensityOf(liquid_type) == IF liquid_type = "FUEL" THEN <<151, 200>> ELSE Dbl(1)

\* C28: the mass of a wet station is its fill level times 0.755 when it was
\* constructed with LiquidType::FUEL and times 1 when constructed with
\* LiquidType::WATER, and a station that has never been filled has the fill
\* level 0.
C28_MassFromLiquidAndLevel ==
  /\ balance.op \in {"WetWeightAndBalanceStation", "Fill"} =>
       GetMass(station[1])
         = DblMul(station[1].current_capacity, DensityOf(balance.liquid_type))
  /\ balance.op = "WetWeightAndBalanceStation" =>
       station[1].current_capacity = Dbl(0)

(***************************************************************************)
(* Properties of the airspace warning dialog (SpecDialog, SpecDialogFair). *)
(***************************************************************************)
ShowDlgCalled == dlgcall'.op = "dlgAirspaceWarningShowDlg"

MayShow == ~fDialogOpen /\ (actShow \/ dlgcall'.Force) /\ items # 0

ShowDlgStep ==
  ShowDlgCalled =>
    IF MayShow
    THEN /\ shown' = shown + 1
         /\ fDialogOpen'
         /\ visible'
         /\ modal' = "running"
    ELSE /\ dlgcall'.ret = "false"
         /\ UNCHANGED <<shown, fDialogOpen, visible, modal>>

\* C29: dlgAirspaceWarningShowDlg shows the modal dialog only when no warning
\* dialog is open, a show was requested (actShow or Force) and the warning
\* count is not zero, and otherwise returns false without showing it;
\* fDialogOpen is true exactly while the modal dialog is shown, so there are
\* never two warning dialogs open.
C29_ShowsOnlyWhenClosed ==
  /\ [](shown \in {0, 1} /\ (fDialogOpen <=> shown = 1))
  /\ [][ShowDlgStep]_vars

\* A forced call with warnings in the list is refused while the dialog is shown.
C29_Witness ==
  /\ dlgcall.op = "dlgAirspaceWarningShowDlg"
  /\ dlgcall.Force
  /\ dlgcall.ret = "false"
  /\ items > 0
  /\ fDialogOpen
  /\ shown = 1

ListSizeChangePosted ==
  /\ dlgcall.op = "asaProcessEnd"
  /\ dlgcall.ret = "PostMessage"
  /\ actListSizeChange
  /\ fDialogOpen
  /\ visible

\* C30: with the dialog open and visible, once asaProcessEnd has posted the
\* message for a change of the list size, UserMsgNotify eventually consumes
\* actListSizeChange and refreshes Count from the warning count, unless the
\* dialog is closed first; posted messages are delivered and the handler runs
\* to its return.  The property asks for no more than one of the two: the
\* flag consumed, or Count equal to the warning count.
C30_ListSizeChangeConsumed ==
  ListSizeChangePosted ~>
    (~actListSizeChange \/ Count = items \/ ~fDialogOpen \/ ~visible)

\* The handler has returned on actShow with the change of size still pending
\* and no message left: Count is not the warning count.
C30_ListSizeChangeLost ==
  /\ handler = "idle"
  /\ posted = 0
  /\ notifier = <<"idle", "idle">>
  /\ actListSizeChange
  /\ ~actShow
  /\ fDialogOpen
  /\ visible
  /\ Count # items

====
